---- MODULE Spec2Model ----
(***************************************************************************)
(* Council carbon dashboard (invoice_extractor.py): the emissions          *)
(* calculation engine and the session state the pages mutate.              *)
(*                                                                         *)
(* Numbers.  The program computes with Python floats.  The model computes  *)
(* with exact decimals: a quantity x is the record [w |-> floor(x),        *)
(* n |-> (x - floor(x)) * 10^9], so 2070.5 is [w |-> 2070, n |-> 500000000]*)
(* and -207.074 is [w |-> -208, n |-> 926000000].  Emission factors are    *)
(* kept in millionths of kg CO2e per kWh (0.207074 is 207074); usage is in *)
(* whole kWh.                                                              *)
(***************************************************************************)
EXTENDS Integers, Sequences, FiniteSets, TLC

VARIABLES
    data_entries,       \* st.session_state.data_entries: list of entry dicts
    buildings,          \* st.session_state.buildings: list of building dicts
    selected_building,  \* st.session_state.selected_building: id or None
    selected_years,     \* st.session_state.selected_years: list of years
    reporting_period,   \* st.session_state.reporting_period
    demo_mode,          \* st.session_state.demo_mode
    calc_args,          \* arguments of a direct call of calculate_emissions
    calc_result,        \* what that call returned (NoResult before the call)
    calc_period,        \* reporting period in force when it returned
    page                \* what the last rendered page or submitted form showed

session == <<data_entries, buildings, selected_building, selected_years,
             reporting_period, demo_mode>>
calc == <<calc_args, calc_result, calc_period>>
vars == <<data_entries, buildings, selected_building, selected_years,
          reporting_period, demo_mode, calc_args, calc_result, calc_period,
          page>>

None == "None"
NoArgs == [kind |-> "no call"]
NoResult == [kind |-> "no result"]
NoPage == [view |-> "not rendered"]

(***************************************************************************)
(* Constants of the program                                                *)
(***************************************************************************)
\* dicts keep insertion order: a table is the sequence of its (key, value)
\* pairs, values in millionths of kg CO2e per kWh
ELECTRICITY_FACTORS ==
    << <<2022, 193380>>, <<2023, 207074>>, <<2024, 207050>>, <<2025, 207050>> >>

GAS_FACTORS ==
    << <<2022, 182540>>, <<2023, 182930>>, <<2024, 182900>>, <<2025, 182900>> >>

AVAILABLE_YEARS == <<2022, 2023, 2024, 2025>>

REPORTING_PERIODS == <<"calendar", "financial">>

(***************************************************************************)
(* Exact decimal arithmetic standing for the float operations              *)
(***************************************************************************)
Nano == 1000000000

\* kwh * factor, factor in millionths; the product is split so that no
\* intermediate value leaves 32 bits
FloatMul(kwh, factor_micro) ==
    LET a == kwh * (factor_micro \div 1000)     \* thousandths
        b == kwh * (factor_micro % 1000)        \* millionths
        c == a + (b \div 1000)                  \* thousandths
        micro == ((c % 1000) * 1000) + (b % 1000)
    IN  [w |-> c \div 1000, n |-> micro * 1000]

FloatAdd(x, y) ==
    LET s == x.n + y.n
    IN  [w |-> x.w + y.w + (s \div Nano), n |-> s % Nano]

\* variant: kg taken for tonnes after dividing by 100
FloatDiv100(x) ==
    [w |-> x.w \div 100, n |-> ((x.w % 100) * 10000000) + (x.n \div 100)]

\* x / 1000 (exact for x with at most six decimals)
FloatDiv1000(x) ==
    [w |-> x.w \div 1000, n |-> ((x.w % 1000) * 1000000) + (x.n \div 1000)]

(***************************************************************************)
(* dict helpers                                                            *)
(***************************************************************************)
DictKeys(d) == {d[i][1] : i \in 1..Len(d)}

DictFirstValue(d) == d[1][2]

DictLastValue(d) == d[Len(d)][2]

\* d.get(key, default)
DictGet(d, key, default) ==
    IF key \in DictKeys(d)
    THEN d[CHOOSE i \in 1..Len(d) : d[i][1] = key][2]
    ELSE default

(***************************************************************************)
(* Dates: datetime(year, month, day) / datetime.date, or a bare int year   *)
(***************************************************************************)
datetime(y, m, d) == [kind |-> "datetime", year |-> y, month |-> m, day |-> d]
IntYear(y) == [kind |-> "int", year |-> y]
isinstance_int(date) == date.kind = "int"

(***************************************************************************)
(* Calculation functions                                                   *)
(***************************************************************************)
\* The functions read st.session_state.reporting_period when they are
\* called: the period in force is their first argument here.

\* variants of the resolver used to test the properties below
get_appropriate_factor_year_from_march(period, date) ==
    IF period = "financial" /\ date.month < 3
    THEN date.year - 1
    ELSE date.year

get_appropriate_factor_year_calendar_only(period, date) == date.year

get_appropriate_factor_year(period, date) ==
    IF period = "calendar"
    THEN date.year
    ELSE IF period = "financial"
         THEN IF date.month >= 4 THEN date.year ELSE date.year - 1
         ELSE date.year

\* variant: a bare year is taken as the factor year itself, the resolver is
\* applied to dates only
calculate_emissions_year_as_factor_year(period, electricity_kwh, gas_kwh, date_arg) ==
    LET factor_year == IF isinstance_int(date_arg)
                       THEN date_arg.year
                       ELSE get_appropriate_factor_year(period, date_arg)
        electricity_factor ==
            DictGet(ELECTRICITY_FACTORS, factor_year, DictLastValue(ELECTRICITY_FACTORS))
        gas_factor ==
            DictGet(GAS_FACTORS, factor_year, DictLastValue(GAS_FACTORS))
        electricity_emissions_kg == FloatMul(electricity_kwh, electricity_factor)
        gas_emissions_kg == FloatMul(gas_kwh, gas_factor)
        total_emissions_kg == FloatAdd(electricity_emissions_kg, gas_emissions_kg)
    IN  [electricity_emissions_kg |-> electricity_emissions_kg,
         gas_emissions_kg |-> gas_emissions_kg,
         total_emissions_tonnes |-> FloatDiv1000(total_emissions_kg),
         factor_year |-> factor_year]

calculate_emissions(period, electricity_kwh, gas_kwh, date_arg) ==
    LET date == IF isinstance_int(date_arg)
                THEN datetime(date_arg.year, 1, 1)
                ELSE date_arg
        factor_year == get_appropriate_factor_year(period, date)
        electricity_factor ==
            DictGet(ELECTRICITY_FACTORS, factor_year, DictLastValue(ELECTRICITY_FACTORS))
        gas_factor ==
            DictGet(GAS_FACTORS, factor_year, DictLastValue(GAS_FACTORS))
        electricity_emissions_kg == FloatMul(electricity_kwh, electricity_factor)
        gas_emissions_kg == FloatMul(gas_kwh, gas_factor)
        total_emissions_kg == FloatAdd(electricity_emissions_kg, gas_emissions_kg)
        total_emissions_tonnes == FloatDiv1000(total_emissions_kg)
    IN  [electricity_emissions_kg |-> electricity_emissions_kg,
         gas_emissions_kg |-> gas_emissions_kg,
         total_emissions_tonnes |-> total_emissions_tonnes,
         factor_year |-> factor_year]

(***************************************************************************)
(* Buildings                                                               *)
(***************************************************************************)
\* f"{building_name.lower().replace(' ', '-')}-{str(uuid.uuid4())[:8]}"
building_id(building_name, uuid8) ==
    CASE building_name = "Town Hall" /\ uuid8 = "a1b2c3d4" -> "town-hall-a1b2c3d4"
      [] building_name = "Town Hall" /\ uuid8 = "e5f6a7b8" -> "town-hall-e5f6a7b8"
      [] building_name = "Library" /\ uuid8 = "a1b2c3d4" -> "library-a1b2c3d4"
      [] building_name = "Library" /\ uuid8 = "e5f6a7b8" -> "library-e5f6a7b8"

new_building(building_name, uuid8) ==
    [id |-> building_id(building_name, uuid8),
     name |-> building_name,
     type |-> "Administrative Building",
     floor_area |-> 1000]

DemoBuildings ==
    << [id |-> "town-hall", name |-> "Town Hall",
        type |-> "Administrative Building", floor_area |-> 3500],
       [id |-> "community-center", name |-> "Community Center",
        type |-> "Public Building", floor_area |-> 2200],
       [id |-> "leisure-center", name |-> "Leisure Center",
        type |-> "Recreational", floor_area |-> 4800] >>

BuildingIds(bs) == {bs[i].id : i \in 1..Len(bs)}

(***************************************************************************)
(* Inputs the environment supplies                                         *)
(***************************************************************************)
\* datetime.now().year
NowYears == {2025, 2026}

\* text typed into "Building Name*" and the uuid4 prefixes drawn
BuildingNames == {"Town Hall", "Library"}
Uuids == {"a1b2c3d4", "e5f6a7b8"}
NewBuildingInputs ==
    {<<"Library", "a1b2c3d4">>, <<"Library", "e5f6a7b8">>, <<"Town Hall", "a1b2c3d4">>}

\* years a date can carry: the table's years and YearMargin years around them
YearMargin == 1
TableYears == DictKeys(ELECTRICITY_FACTORS)
MinTableYear == CHOOSE y \in TableYears : \A z \in TableYears : y <= z
MaxTableYear == CHOOSE y \in TableYears : \A z \in TableYears : y >= z
DateYears == (MinTableYear - YearMargin)..(MaxTableYear + YearMargin)
Months == 1..12

\* arguments of a direct call: the function itself accepts any number and
\* either a date or a bare year
CalcKwh == {-1000, 0, 1, 5000, 10000}
CalcDates == {datetime(y, m, 1) : y \in DateYears, m \in Months}
                \cup {IntYear(y) : y \in DateYears}
CalcArgs == [electricity_kwh : CalcKwh, gas_kwh : CalcKwh, date : CalcDates]

(***************************************************************************)
(* Session state initialisation (module level, lines 55-87)                *)
(***************************************************************************)
SessionInit ==
    /\ data_entries = << >>
    /\ demo_mode = FALSE
    /\ buildings = << >>
    /\ selected_building = None
    /\ selected_years \in {<<y>> : y \in NowYears}
    /\ reporting_period = "calendar"

(***************************************************************************)
(* Reporting period selectboxes (sidebar and both entry forms): rendered   *)
(* only when a building exists                                             *)
(***************************************************************************)
\* variant: the stored entries are recalculated under the new period
SetReportingPeriod_recalculating(period) ==
    /\ buildings # << >>
    /\ period # reporting_period
    /\ reporting_period' = period
    /\ data_entries' =
          [i \in 1..Len(data_entries) |->
              LET entry == data_entries[i]
                  emissions == calculate_emissions(period, entry.electricity_kwh,
                                   entry.gas_kwh,
                                   datetime(entry.year, entry.month_num, 1))
              IN  [entry EXCEPT
                      !.electricity_emissions_kg = emissions.electricity_emissions_kg,
                      !.gas_emissions_kg = emissions.gas_emissions_kg,
                      !.total_emissions_tonnes = emissions.total_emissions_tonnes]]
    /\ UNCHANGED <<buildings, selected_building, selected_years, demo_mode, calc, page>>

SetReportingPeriod(period) ==
    /\ buildings # << >>
    /\ period # reporting_period
    /\ reporting_period' = period
    /\ UNCHANGED <<data_entries, buildings, selected_building, selected_years,
                   demo_mode, calc, page>>

(***************************************************************************)
(* Direct calls of calculate_emissions                                     *)
(***************************************************************************)
\* variant: the call also records the year it was asked about
CallCalculateEmissions_recording ==
    /\ calc_args # NoArgs
    /\ calc_result' = calculate_emissions(reporting_period,
          calc_args.electricity_kwh, calc_args.gas_kwh, calc_args.date)
    /\ calc_period' = reporting_period
    /\ selected_years' = Append(selected_years, calc_args.date.year)
    /\ UNCHANGED <<data_entries, buildings, selected_building, reporting_period,
                   demo_mode, calc_args, page>>

CallCalculateEmissions ==
    /\ calc_args # NoArgs
    /\ calc_result' = calculate_emissions(reporting_period,
          calc_args.electricity_kwh, calc_args.gas_kwh, calc_args.date)
    /\ calc_period' = reporting_period
    /\ UNCHANGED <<session, calc_args, page>>

\* a session in which one building has been added, and the arguments of the
\* call about to be made
InitCalc ==
    /\ data_entries = << >>
    /\ demo_mode = FALSE
    /\ buildings = <<new_building("Library", "a1b2c3d4")>>
    /\ selected_building = building_id("Library", "a1b2c3d4")
    /\ selected_years \in {<<y>> : y \in NowYears}
    /\ reporting_period = "calendar"
    /\ calc_args \in CalcArgs
    /\ calc_result = NoResult
    /\ calc_period = None
    /\ page = NoPage

NextCalc ==
    \/ CallCalculateEmissions
    \/ \E period \in {REPORTING_PERIODS[i] : i \in 1..Len(REPORTING_PERIODS)} :
          SetReportingPeriod(period)

SpecCalc == InitCalc /\ [][NextCalc]_vars

(***************************************************************************)
(* Entries                                                                 *)
(***************************************************************************)
MonthName(m) ==
    <<"January", "February", "March", "April", "May", "June", "July",
      "August", "September", "October", "November", "December">>[m]

\* date.strftime("%B %Y")
strftime_B_Y(date) == <<MonthName(date.month), date.year>>

\* the entry dict both forms build
form_entry(building, date, electricity_kwh, gas_kwh, emissions) ==
    [building_id |-> building.id,
     building_name |-> building.name,
     building_type |-> building.type,
     floor_area |-> building.floor_area,
     year |-> date.year,
     month |-> strftime_B_Y(date),
     month_num |-> date.month,
     electricity_kwh |-> electricity_kwh,
     electricity_provider |-> "",
     gas_kwh |-> gas_kwh,
     gas_provider |-> "",
     electricity_emissions_kg |-> emissions.electricity_emissions_kg,
     gas_emissions_kg |-> emissions.gas_emissions_kg,
     total_emissions_tonnes |-> emissions.total_emissions_tonnes,
     factor_year |-> emissions.factor_year]

\* the entry dict generate_year_data builds: it has no "factor_year" key
demo_entry(building, date, electricity_kwh, gas_kwh, emissions) ==
    [building_id |-> building.id,
     building_name |-> building.name,
     building_type |-> building.type,
     floor_area |-> building.floor_area,
     year |-> date.year,
     month |-> strftime_B_Y(date),
     month_num |-> date.month,
     electricity_kwh |-> electricity_kwh,
     electricity_provider |-> "Council Energy Provider",
     gas_kwh |-> gas_kwh,
     gas_provider |-> "Council Gas Provider",
     electricity_emissions_kg |-> emissions.electricity_emissions_kg,
     gas_emissions_kg |-> emissions.gas_emissions_kg,
     total_emissions_tonnes |-> emissions.total_emissions_tonnes]

(***************************************************************************)
(* Demo data                                                               *)
(***************************************************************************)
elec_pattern ==
    <<12500, 11800, 10500, 9200, 8500, 8000, 8200, 8500, 9000, 10000, 11200, 12000>>
gas_pattern ==
    <<8000, 7500, 6500, 5000, 3500, 2500, 2000, 2200, 3000, 4500, 6500, 7800>>

\* random.uniform: the generator's stream is fixed by its seed; draw k of
\* stream seed is a point of [lo, hi], in thousandths
MaxSeed == 0
RandomSeeds == 0..MaxSeed
random_uniform(lo_permille, hi_permille, seed, k) ==
    lo_permille + ((((seed * 7) + (k * 13)) % 17) * (hi_permille - lo_permille)) \div 16

\* generate_year_data(year, reduction_factor): the entries it appends, one
\* per building and month, in that order.  Usage is rounded down to whole
\* kWh; draws_before is the number of random draws already made.
generate_year_data(period, year, reduction_percent, bs, seed, draws_before) ==
    [k \in 1..(Len(bs) * 12) |->
        LET building == bs[((k - 1) \div 12) + 1]
            month == (k - 1) % 12
            current_date == datetime(year, month + 1, 1)
            elec_variation ==
                random_uniform(920, 1080, seed, draws_before + (2 * (k - 1)))
            gas_variation ==
                random_uniform(900, 1100, seed, draws_before + (2 * (k - 1)) + 1)
            elec_kwh ==
                (((((elec_pattern[month + 1] * reduction_percent) \div 100)
                    * elec_variation) \div 1000) * building.floor_area) \div 3500
            gas_kwh ==
                (((((gas_pattern[month + 1] * reduction_percent) \div 100)
                    * gas_variation) \div 1000) * building.floor_area) \div 3500
        IN  demo_entry(building, current_date, elec_kwh, gas_kwh,
                       calculate_emissions(period, elec_kwh, gas_kwh, current_date))]

\* the data_entries load_demo_data leaves behind: generate_year_data(2023),
\* then generate_year_data(2024, reduction_factor=0.95), for every stream
\* of the generator and every reporting period
demo_data_entries ==
    [seed \in RandomSeeds, period \in {"calendar", "financial"} |->
        generate_year_data(period, 2023, 100, DemoBuildings, seed, 0)
            \o generate_year_data(period, 2024, 95, DemoBuildings, seed,
                                   2 * Len(DemoBuildings) * 12)]

(***************************************************************************)
(* The sidebar of main(), rendered at the start of every script run: the   *)
(* building selectbox shows the name at the selected building's index and  *)
(* writes back the id found under that name                                *)
(***************************************************************************)
FirstIndex(seq, x) == CHOOSE i \in 1..Len(seq) : seq[i] = x /\ \A j \in 1..(i - 1) : seq[j] # x

\* the selectbox's value, a name, stored in place of the id found under it
sidebar_selected_building_name(sel, bs) ==
    IF bs = << >>
    THEN sel
    ELSE LET building_names == [i \in 1..Len(bs) |-> bs[i].name]
             building_ids == [i \in 1..Len(bs) |-> bs[i].id]
             selected_index ==
                 IF sel # None /\ sel \in BuildingIds(bs)
                 THEN FirstIndex(building_ids, sel)
                 ELSE 1
         IN  building_names[selected_index]

sidebar_selected_building(sel, bs) ==
    IF bs = << >>
    THEN sel
    ELSE LET building_names == [i \in 1..Len(bs) |-> bs[i].name]
             building_ids == [i \in 1..Len(bs) |-> bs[i].id]
             selected_index ==
                 IF sel # None /\ sel \in BuildingIds(bs)
                 THEN FirstIndex(building_ids, sel)
                 ELSE 1
             selected_building_name == building_names[selected_index]
             selected_idx == FirstIndex(building_names, selected_building_name)
         IN  building_ids[selected_idx]

(***************************************************************************)
(* Demo mode                                                               *)
(***************************************************************************)
\* load_demo_data without its first statement (data_entries = [])
load_demo_data_appending(seed) ==
    /\ data_entries' = data_entries \o demo_data_entries[seed, reporting_period]
    /\ buildings' = DemoBuildings
    /\ selected_building' = "town-hall"
    /\ selected_years' = <<2023, 2024>>

load_demo_data(seed) ==
    /\ data_entries' = demo_data_entries[seed, reporting_period]
    /\ buildings' = DemoBuildings
    /\ selected_building' = "town-hall"
    /\ selected_years' = <<2023, 2024>>

\* toggle_demo_mode without the reset of data_entries when demo mode is left
ToggleDemoMode_keeping_entries(seed) ==
    /\ demo_mode' = ~demo_mode
    /\ IF demo_mode'
       THEN load_demo_data(seed)
       ELSE /\ buildings' = << >>
            /\ selected_building' = None
            /\ UNCHANGED <<data_entries, selected_years>>
    /\ UNCHANGED <<reporting_period, calc, page>>

\* toggle_demo_mode() followed by st.rerun() (sidebar, dashboard and
\* building-selection buttons)
ToggleDemoMode(seed) ==
    /\ demo_mode' = ~demo_mode
    /\ IF demo_mode'
       THEN load_demo_data(seed)
       ELSE /\ data_entries' = << >>
            /\ buildings' = << >>
            /\ selected_building' = None
            /\ UNCHANGED selected_years
    /\ UNCHANGED <<reporting_period, calc, page>>

\* "Try the Demo" on the landing page
TryDemoLanding(seed) ==
    /\ demo_mode' = TRUE
    /\ load_demo_data(seed)
    /\ UNCHANGED <<reporting_period, calc, page>>

(***************************************************************************)
(* Buildings                                                               *)
(***************************************************************************)
MaxBuildings == 2

\* add_building_form, "Add Building" with a name filled in
AddBuilding(building_name, uuid8) ==
    /\ Len(buildings) < MaxBuildings
    /\ building_id(building_name, uuid8) \notin BuildingIds(buildings)
    /\ buildings' = Append(buildings, new_building(building_name, uuid8))
    /\ selected_building' =
          sidebar_selected_building(building_id(building_name, uuid8), buildings')
    /\ UNCHANGED <<data_entries, selected_years, reporting_period, demo_mode, calc, page>>

\* the sidebar selectbox: the user picks a building name
SelectBuilding(building_name) ==
    /\ \E i \in 1..Len(buildings) : buildings[i].name = building_name
    /\ LET building_names == [i \in 1..Len(buildings) |-> buildings[i].name]
           selected_idx == FirstIndex(building_names, building_name)
       IN  /\ buildings[selected_idx].id # selected_building
           /\ selected_building' = buildings[selected_idx].id
    /\ UNCHANGED <<data_entries, buildings, selected_years, reporting_period,
                   demo_mode, calc, page>>

\* "Change Building" / "Select Different Building": the selection is set to
\* None and the script reruns, whose sidebar selects again
ChangeBuilding ==
    /\ selected_building # None
    /\ selected_building' = sidebar_selected_building(None, buildings)
    /\ UNCHANGED <<data_entries, buildings, selected_years, reporting_period,
                   demo_mode, calc, page>>

\* the sidebar multiselect "Years to Display"
YearSelections == {<<2022, 2025>>}

SetSelectedYears(years) ==
    /\ buildings # << >>
    /\ years # << >> /\ years # selected_years
    /\ selected_years' = years
    /\ UNCHANGED <<data_entries, buildings, selected_building, reporting_period,
                   demo_mode, calc, page>>

(***************************************************************************)
(* Data entry forms                                                        *)
(***************************************************************************)
\* the forms are explored while fewer than MaxEntries entries have been
\* entered through them (entries that follow the demo data, in demo mode)
MaxEntries == 1
EnteredByForm ==
    Len(data_entries) - (IF demo_mode THEN 2 * Len(DemoBuildings) * 12 ELSE 0)

\* for building in buildings: if building["id"] == selected_building: break
find_selected_building ==
    IF selected_building \in BuildingIds(buildings)
    THEN buildings[FirstIndex([i \in 1..Len(buildings) |-> buildings[i].id],
                              selected_building)]
    ELSE None

SeqContains(seq, x) == \E i \in 1..Len(seq) : seq[i] = x

\* if year not in selected_years: selected_years.append(year)
append_year(years, year) ==
    IF SeqContains(years, year) THEN years ELSE Append(years, year)

\* what the user can put into the single month form: the date widget's
\* day and the two number inputs (left at their defaults 9000 / 5000)
SingleMonthDates == {datetime(2023, 1, 15), datetime(2026, 6, 30)}
SingleMonthUsage == {<<9000, 5000>>}

SubmitSingleMonth(month, electricity_usage, gas_usage) ==
    /\ selected_building \in BuildingIds(buildings)
    /\ EnteredByForm < MaxEntries
    /\ LET emissions == calculate_emissions(reporting_period, electricity_usage,
                                            gas_usage, month)
           new_entry == form_entry(find_selected_building, month,
                                   electricity_usage, gas_usage, emissions)
       IN  /\ data_entries' = Append(data_entries, new_entry)
           /\ page' = [view |-> "single_month_form",
                       message |-> "success",
                       factor_year |-> emissions.factor_year]
    /\ selected_years' = append_year(selected_years, month.year)
    /\ UNCHANGED <<buildings, selected_building, reporting_period, demo_mode, calc>>

\* what the user can put into the multiple month form: the defaults of
\* get_default, all zeros (after "Clear Form Values"), or zeros with a few
\* months filled in
DefaultMonthData ==
    << <<10000, 8000>>, <<9500, 7500>>, <<9000, 6500>>, <<8500, 5000>>,
       <<8000, 3500>>, <<7800, 2500>>, <<7500, 2000>>, <<7800, 2200>>,
       <<8200, 3000>>, <<8800, 4500>>, <<9500, 6500>>, <<10000, 7800>> >>
ClearedMonthData == [m \in Months |-> <<0, 0>>]
MultiMonthData ==
    { DefaultMonthData,
      ClearedMonthData,
      [ClearedMonthData EXCEPT ![3] = <<9000, 0>>, ![4] = <<0, 5000>>] }

\* the years picked in the form's "Select Year" box (options AVAILABLE_YEARS)
MultiMonthYears == {AVAILABLE_YEARS[1], AVAILABLE_YEARS[3]}

\* the entries the loop over month_data appends for months m..12
RECURSIVE multi_month_entries(_, _, _, _, _)
multi_month_entries(period, building, year, month_data, month_num) ==
    IF month_num > 12
    THEN << >>
    ELSE LET elec == month_data[month_num][1]
             gas == month_data[month_num][2]
             date == datetime(year, month_num, 1)
             rest == multi_month_entries(period, building, year, month_data,
                                         month_num + 1)
         IN  IF elec > 0 \/ gas > 0
             THEN <<form_entry(building, date, elec, gas,
                               calculate_emissions(period, elec, gas, date))>> \o rest
             ELSE rest

\* the value of the counter entries_added after the loop over months m..12
RECURSIVE entries_added_from(_, _)
entries_added_from(month_data, month_num) ==
    IF month_num > 12
    THEN 0
    ELSE LET elec == month_data[month_num][1]
             gas == month_data[month_num][2]
             rest == entries_added_from(month_data, month_num + 1)
         IN  IF elec > 0 \/ gas > 0 THEN rest + 1 ELSE rest

\* what the form shows when it has processed a submission: its inputs and
\* st.success("Added data for {entries_added} months in {year} using
\* {factor_year} emission factors ...") or st.warning("No data was added...")
multi_month_page(period, year, month_data, entries_added) ==
    IF entries_added > 0
    THEN [view |-> "multiple_month_form",
          year |-> year,
          month_data |-> month_data,
          message |-> "success",
          entries_added |-> entries_added,
          factor_year |->
              calculate_emissions(period, 1000, 1000,
                                  datetime(year, 6, 1)).factor_year]
    ELSE [view |-> "multiple_month_form",
          year |-> year,
          month_data |-> month_data,
          message |-> "warning",
          entries_added |-> entries_added]

\* variant: the loop over months starts at February
SubmitMultiMonth_from_february(year, month_data) ==
    /\ selected_building \in BuildingIds(buildings)
    /\ EnteredByForm < MaxEntries
    /\ data_entries' = data_entries
          \o multi_month_entries(reporting_period, find_selected_building, year,
                                 month_data, 2)
    /\ selected_years' = append_year(selected_years, year)
    /\ page' = multi_month_page(reporting_period, year, month_data,
                                entries_added_from(month_data, 2))
    /\ UNCHANGED <<buildings, selected_building, reporting_period, demo_mode, calc>>

SubmitMultiMonth(year, month_data) ==
    /\ selected_building \in BuildingIds(buildings)
    /\ EnteredByForm < MaxEntries
    /\ data_entries' = data_entries
          \o multi_month_entries(reporting_period, find_selected_building, year,
                                 month_data, 1)
    /\ selected_years' = append_year(selected_years, year)
    /\ page' = multi_month_page(reporting_period, year, month_data,
                                entries_added_from(month_data, 1))
    /\ UNCHANGED <<buildings, selected_building, reporting_period, demo_mode, calc>>

(***************************************************************************)
(* The session                                                             *)
(***************************************************************************)
Init ==
    /\ SessionInit
    /\ calc_args = NoArgs
    /\ calc_result = NoResult
    /\ calc_period = None
    /\ page = NoPage

Next ==
    \/ \E seed \in RandomSeeds : ToggleDemoMode(seed)
    \/ \E seed \in RandomSeeds : TryDemoLanding(seed)
    \/ \E input \in NewBuildingInputs : AddBuilding(input[1], input[2])
    \/ \E nm \in BuildingNames \cup {DemoBuildings[i].name : i \in 1..Len(DemoBuildings)} :
          SelectBuilding(nm)
    \/ ChangeBuilding
    \/ \E years \in YearSelections : SetSelectedYears(years)
    \/ \E period \in {REPORTING_PERIODS[i] : i \in 1..Len(REPORTING_PERIODS)} :
          SetReportingPeriod(period)
    \/ \E month \in SingleMonthDates, usage \in SingleMonthUsage :
          SubmitSingleMonth(month, usage[1], usage[2])
    \/ \E year \in MultiMonthYears, month_data \in MultiMonthData :
          SubmitMultiMonth(year, month_data)

Spec == Init /\ [][Next]_vars

(***************************************************************************)
(* Properties of the calculation functions, checked under SpecCalc         *)
(***************************************************************************)
CalcCalled == calc_result # NoResult
ArgIsDate == calc_args.date.kind = "datetime"
ArgIsBareYear == calc_args.date.kind = "int"
NonNegativeArgs == calc_args.electricity_kwh >= 0 /\ calc_args.gas_kwh >= 0

\* the factor year the specification prescribes for a date
ExpectedFactorYear(period, year, month) ==
    IF period = "financial" /\ month < 4 THEN year - 1 ELSE year

\* the table entry stored under a year
FactorOfYear(table, year) ==
    LET i == CHOOSE j \in 1..Len(table) : table[j][1] = year IN table[i][2]

\* the emissions record obtained from given factors
EmissionsWith(electricity_kwh, gas_kwh, electricity_factor, gas_factor) ==
    LET e == FloatMul(electricity_kwh, electricity_factor)
        g == FloatMul(gas_kwh, gas_factor)
    IN  [electricity_emissions_kg |-> e,
         gas_emissions_kg |-> g,
         total_emissions_tonnes |-> FloatDiv1000(FloatAdd(e, g))]

SameEmissions(result, expected) ==
    /\ result.electricity_emissions_kg = expected.electricity_emissions_kg
    /\ result.gas_emissions_kg = expected.gas_emissions_kg
    /\ result.total_emissions_tonnes = expected.total_emissions_tonnes

\* C1: for a date, the factor year is the date's year under 'calendar'; under
\* 'financial' it is the date's year for months 4..12 and the year before for
\* months 1..3
C1_FactorYearResolution ==
    (CalcCalled /\ ArgIsDate) =>
        /\ calc_period = "calendar" =>
              calc_result.factor_year = calc_args.date.year
        /\ (calc_period = "financial" /\ calc_args.date.month >= 4) =>
              calc_result.factor_year = calc_args.date.year
        /\ (calc_period = "financial" /\ calc_args.date.month <= 3) =>
              calc_result.factor_year = calc_args.date.year - 1

C1_Witness ==
    /\ CalcCalled /\ ArgIsDate
    /\ calc_period = "financial"
    /\ calc_args.date = datetime(2024, 2, 1)
    /\ calc_result.factor_year = 2023

\* C2: when the resolved factor year is no key of the table (above its
\* largest year or below its smallest), the call returns a result computed
\* with the factors stored under the table's largest year
C2_FallbackToLatestYear ==
    (CalcCalled /\ calc_result.factor_year \notin TableYears) =>
        /\ DOMAIN calc_result = {"electricity_emissions_kg", "gas_emissions_kg",
                                 "total_emissions_tonnes", "factor_year"}
        /\ SameEmissions(calc_result,
              EmissionsWith(calc_args.electricity_kwh, calc_args.gas_kwh,
                            FactorOfYear(ELECTRICITY_FACTORS, MaxTableYear),
                            FactorOfYear(GAS_FACTORS, MaxTableYear)))

\* January 2022 under the financial convention resolves to 2021
C2_Witness ==
    /\ CalcCalled
    /\ calc_period = "financial"
    /\ calc_args.date = datetime(2022, 1, 1)
    /\ calc_args.electricity_kwh = 10000
    /\ calc_result.factor_year = 2021
    /\ calc_result.electricity_emissions_kg = [w |-> 2070, n |-> 500000000]

\* C3: for non-negative usage and a date whose factor year Y is in the table,
\* the result is electricity_kwh x ELECTRICITY_FACTORS[Y], gas_kwh x
\* GAS_FACTORS[Y], their sum / 1000, and factor_year = Y; in particular
\* 10,000 kWh and 5,000 kWh in 2024 give 2070.5 kg, 914.5 kg and 2.985 t
C3_EmissionsFormula ==
    /\ (CalcCalled /\ ArgIsDate /\ NonNegativeArgs) =>
          LET Y == ExpectedFactorYear(calc_period, calc_args.date.year,
                                      calc_args.date.month)
          IN  Y \in TableYears =>
                /\ calc_result.factor_year = Y
                /\ SameEmissions(calc_result,
                      EmissionsWith(calc_args.electricity_kwh, calc_args.gas_kwh,
                                    FactorOfYear(ELECTRICITY_FACTORS, Y),
                                    FactorOfYear(GAS_FACTORS, Y)))
    /\ (/\ CalcCalled /\ calc_period = "calendar"
        /\ calc_args = [electricity_kwh |-> 10000, gas_kwh |-> 5000,
                        date |-> datetime(2024, 6, 1)]) =>
          /\ calc_result.electricity_emissions_kg = [w |-> 2070, n |-> 500000000]
          /\ calc_result.gas_emissions_kg = [w |-> 914, n |-> 500000000]
          /\ calc_result.total_emissions_tonnes = [w |-> 2, n |-> 985000000]

C3_Witness ==
    /\ CalcCalled /\ calc_period = "financial"
    /\ calc_args = [electricity_kwh |-> 10000, gas_kwh |-> 5000,
                    date |-> datetime(2024, 3, 1)]
    /\ calc_result.factor_year = 2023
    /\ calc_result.electricity_emissions_kg = [w |-> 2070, n |-> 740000000]

\* C4 as stated: for a bare year Y with a table entry and non-negative usage,
\* under every reporting period, the total is computed with year Y's own
\* factors
C4_BareYearUsesOwnFactors ==
    (CalcCalled /\ ArgIsBareYear /\ NonNegativeArgs
        /\ calc_args.date.year \in TableYears) =>
        calc_result.total_emissions_tonnes =
            EmissionsWith(calc_args.electricity_kwh, calc_args.gas_kwh,
                FactorOfYear(ELECTRICITY_FACTORS, calc_args.date.year),
                FactorOfYear(GAS_FACTORS, calc_args.date.year)).total_emissions_tonnes

\* C4 amended: under 'calendar' the total is computed with year Y's own
\* factors; under 'financial' it is computed with the factors of year Y - 1,
\* or with the latest year's factors when Y - 1 has no table entry
C4_BareYearFactors ==
    (CalcCalled /\ ArgIsBareYear /\ NonNegativeArgs
        /\ calc_args.date.year \in TableYears) =>
        LET Y == calc_args.date.year
            used == IF calc_period = "calendar" THEN Y
                    ELSE IF Y - 1 \in TableYears THEN Y - 1 ELSE MaxTableYear
        IN  calc_result.total_emissions_tonnes =
                EmissionsWith(calc_args.electricity_kwh, calc_args.gas_kwh,
                    FactorOfYear(ELECTRICITY_FACTORS, used),
                    FactorOfYear(GAS_FACTORS, used)).total_emissions_tonnes

C4_Witness ==
    /\ CalcCalled /\ ArgIsBareYear
    /\ calc_period = "financial"
    /\ calc_args.date.year = 2024
    /\ calc_args.electricity_kwh = 10000 /\ calc_args.gas_kwh = 5000
    /\ calc_result.total_emissions_tonnes = [w |-> 2, n |-> 985390000]

\* C7 as stated: a call with a negative electricity_kwh or gas_kwh returns a
\* validation failure and no emissions values
ValidationFailure == [kind |-> "validation failure"]

C7_NegativeInputRejected ==
    (CalcCalled /\ ~NonNegativeArgs) => calc_result = ValidationFailure

\* C9: a bare year Y gives exactly the result of the date 1 January Y with the
\* same usage under the same reporting period, hence factor year Y under
\* 'calendar'
C9_BareYearIsFirstOfJanuary ==
    (CalcCalled /\ ArgIsBareYear) =>
        /\ calc_result = calculate_emissions(calc_period,
                                calc_args.electricity_kwh, calc_args.gas_kwh,
                                datetime(calc_args.date.year, 1, 1))
        /\ calc_result.factor_year =
              ExpectedFactorYear(calc_period, calc_args.date.year, 1)
        /\ calc_period = "calendar" =>
              calc_result.factor_year = calc_args.date.year

C9_Witness ==
    /\ CalcCalled /\ ArgIsBareYear
    /\ calc_period = "financial" /\ reporting_period = "financial"
    /\ calc_args.date.year = 2023
    /\ calc_result.factor_year = 2022

IsPrefix(xs, ys) ==
    /\ Len(xs) <= Len(ys)
    /\ \A i \in 1..Len(xs) : ys[i] = xs[i]

HasFactorYear(entry) == "factor_year" \in DOMAIN entry

\* C5: every step leaves the stored entries in place (unchanged, or followed
\* by new ones) or discards the whole collection (leaving it empty or
\* holding freshly generated demo data only); a change of reporting_period
\* leaves data_entries exactly as it was
C5_EntriesNeverChanged ==
    [][/\ \/ IsPrefix(data_entries, data_entries')
          \/ data_entries' = << >>
          \/ /\ demo_mode'
             /\ \E seed \in RandomSeeds :
                    data_entries' = demo_data_entries[seed, reporting_period]
       /\ reporting_period' # reporting_period => data_entries' = data_entries]_vars

\* an entry saved for January under 'calendar' is still there, with its
\* factor year, after the switch to 'financial'
C5_Witness ==
    /\ reporting_period = "financial"
    /\ \E i \in 1..Len(data_entries) :
          /\ HasFactorYear(data_entries[i])
          /\ data_entries[i].month_num = 1
          /\ data_entries[i].factor_year = data_entries[i].year

\* C6 as stated: every stored entry, whichever way it was created, has a
\* factor_year field holding the factor year calculate_emissions resolved for
\* the entry's month (under the reporting period of the time)
C6_EveryEntryHasFactorYear ==
    \A i \in 1..Len(data_entries) :
        /\ HasFactorYear(data_entries[i])
        /\ \E p \in {REPORTING_PERIODS[j] : j \in 1..Len(REPORTING_PERIODS)} :
              data_entries[i].factor_year =
                  get_appropriate_factor_year(p,
                      datetime(data_entries[i].year, data_entries[i].month_num, 1))

\* C8 as stated: no step removes a building from the buildings collection
C8_BuildingsNeverRemoved ==
    [][BuildingIds(buildings) \subseteq BuildingIds(buildings')]_vars

(***************************************************************************)
(* Results of float divisions (numpy float64 semantics without rounding):  *)
(* a rational in lowest terms with a positive denominator, or nan, inf,    *)
(* -inf.  Dividing by zero yields inf or nan and raises nothing.           *)
(***************************************************************************)
\* Only({e(v) : v \in {x}}) is e(x) with x evaluated once, before e: the way
\* Python evaluates an argument, or the right-hand side of an assignment,
\* before the value is used
Only(S) == CHOOSE v \in S : TRUE

Abs(x) == Only({(IF v < 0 THEN -v ELSE v) : v \in {x}})

RECURSIVE GCD(_, _)
GCD(a, b) ==
    Only({(IF y = 0 THEN x ELSE GCD(y, x % y)) : x \in {a}, y \in {b}})

NaN == [kind |-> "nan"]
PosInf == [kind |-> "inf"]
NegInf == [kind |-> "-inf"]

Rat(n, d) ==
    Only({(LET g == GCD(Abs(x), Abs(y))
               s == IF y < 0 THEN -1 ELSE 1
           IN  Only({[kind |-> "finite", num |-> s * (x \div h), den |-> s * (y \div h)] :
                     h \in {g}})) :
          x \in {n}, y \in {d}})

FloatOf(n) == Rat(n, 1)
isfinite(x) == x.kind = "finite"
isnan(x) == x.kind = "nan"
isinf(x) == x.kind \in {"inf", "-inf"}

\* -1, 0 or 1
sign(x) ==
    Only({(CASE a.kind = "finite" ->
                    (IF a.num < 0 THEN -1 ELSE IF a.num = 0 THEN 0 ELSE 1)
             [] a.kind = "inf" -> 1
             [] a.kind = "-inf" -> -1
             [] OTHER -> 0) :
          a \in {x}})

SignedInf(s) == IF s < 0 THEN NegInf ELSE PosInf

\* x * y
multiply(x, y) ==
    Only({(IF isnan(a) \/ isnan(b) THEN NaN
           ELSE IF isfinite(a) /\ isfinite(b)
           THEN Only({Rat((a.num \div g1) * (b.num \div g2),
                          (a.den \div g2) * (b.den \div g1)) :
                      g1 \in {GCD(Abs(a.num), b.den)},
                      g2 \in {GCD(Abs(b.num), a.den)}})
           ELSE IF sign(a) = 0 \/ sign(b) = 0 THEN NaN
           ELSE SignedInf(sign(a) * sign(b))) :
          a \in {x}, b \in {y}})

\* x / y
true_divide(x, y) ==
    Only({(IF isnan(a) \/ isnan(b) THEN NaN
           ELSE IF isfinite(a) /\ isfinite(b)
           THEN IF b.num = 0
                THEN (IF a.num = 0 THEN NaN ELSE SignedInf(sign(a)))
                ELSE multiply(a, Rat(b.den, b.num))
           ELSE IF isinf(a) /\ isinf(b) THEN NaN
           ELSE IF isinf(a) THEN SignedInf(sign(a) * (IF sign(b) < 0 THEN -1 ELSE 1))
           ELSE FloatOf(0)) :
          a \in {x}, b \in {y}})

\* x - y
subtract(x, y) ==
    Only({(IF isnan(a) \/ isnan(b) THEN NaN
           ELSE IF isfinite(a) /\ isfinite(b)
           THEN Only({Rat((a.num * (b.den \div g)) - (b.num * (a.den \div g)),
                          (a.den \div g) * b.den) :
                      g \in {GCD(a.den, b.den)}})
           ELSE IF isinf(a) /\ isinf(b)
           THEN (IF sign(a) = sign(b) THEN NaN ELSE a)
           ELSE IF isinf(a) THEN a
           ELSE SignedInf(-sign(b))) :
          a \in {x}, b \in {y}})

\* a/b compared with c/d for a, c >= 0 and b, d > 0: -1, 0 or 1.  The
\* comparison walks the continued fractions, so that no product is formed.
RECURSIVE FracCompare(_, _, _, _)
FracCompare(a, b, c, d) ==
    Only({(IF q1 # q2 THEN (IF q1 < q2 THEN -1 ELSE 1)
           ELSE IF r1 = 0 /\ r2 = 0 THEN 0
           ELSE IF r1 = 0 THEN -1
           ELSE IF r2 = 0 THEN 1
           ELSE -FracCompare(b, r1, d, r2)) :
          q1 \in {a \div b}, q2 \in {c \div d}, r1 \in {a % b}, r2 \in {c % d}})

\* x compared with y, neither being nan: -1, 0 or 1
compare(x, y) ==
    Only({(IF isfinite(a) /\ isfinite(b)
           THEN IF sign(a) # sign(b) THEN (IF sign(a) < sign(b) THEN -1 ELSE 1)
                ELSE IF sign(a) >= 0 THEN FracCompare(a.num, a.den, b.num, b.den)
                ELSE FracCompare(-b.num, b.den, -a.num, a.den)
           ELSE IF a = b THEN 0
           ELSE IF a = NegInf \/ b = PosInf THEN -1
           ELSE 1) :
          a \in {x}, b \in {y}})

\* comparisons with nan are False
less_equal(x, y) ==
    Only({~isnan(a) /\ ~isnan(b) /\ compare(a, b) <= 0 : a \in {x}, b \in {y}})
less(x, y) ==
    Only({~isnan(a) /\ ~isnan(b) /\ compare(a, b) < 0 : a \in {x}, b \in {y}})
greater_equal(x, y) == less_equal(y, x)
greater(x, y) == less(y, x)

\* a stored amount (exact decimal) as a float, in millionths of its unit;
\* exact for amounts of at most six decimals
AsFloat(q) == Only({FloatOf((a.w * 1000000) + (a.n \div 1000)) : a \in {q}})

(***************************************************************************)
(* pandas helpers: a DataFrame is a sequence of rows (records)             *)
(***************************************************************************)
\* sorted(values)
RECURSIVE sorted(_)
sorted(S) ==
    Only({(IF T = {}
           THEN << >>
           ELSE Only({<<m>> \o sorted(T \ {m}) :
                      m \in {CHOOSE x \in T : \A y \in T : x <= y}})) :
          T \in {S}})

Reversed(seq) == Only({[i \in 1..Len(s) |-> s[Len(s) + 1 - i]] : s \in {seq}})

\* df[col].unique()
unique(df, col) == Only({{rows[i][col] : i \in 1..Len(rows)} : rows \in {df}})

\* df[col].sum() for a column of stored amounts, and for a column of kWh
RECURSIVE SumAmounts(_, _)
SumAmounts(df, col) ==
    Only({(IF rows = << >>
           THEN [w |-> 0, n |-> 0]
           ELSE Only({FloatAdd(first, rest) :
                      first \in {Head(rows)[col]},
                      rest \in {SumAmounts(Tail(rows), col)}})) :
          rows \in {df}})

RECURSIVE SumKwh(_, _)
SumKwh(df, col) ==
    Only({(IF rows = << >> THEN 0 ELSE Head(rows)[col] + SumKwh(Tail(rows), col)) :
          rows \in {df}})

\* variant: each row is compared with the first row
pct_change_from_first(column) ==
    Only({[i \in 1..Len(c) |->
              IF i = 1
              THEN NaN
              ELSE subtract(true_divide(c[i], c[1]), FloatOf(1))] :
          c \in {column}})

\* Series.pct_change(): row / previous row - 1, nan in the first row
pct_change(column) ==
    Only({[i \in 1..Len(c) |->
              IF i = 1
              THEN NaN
              ELSE subtract(true_divide(c[i], c[i - 1]), FloatOf(1))] :
          c \in {column}})

\* Series.mean(skipna=True): nan rows are left out, inf rows are not; the
\* mean of finite rows is kept as the list of its terms
mean(column) ==
    Only({(IF present = << >>
           THEN NaN
           ELSE IF \E i \in 1..Len(present) : present[i] = PosInf
           THEN (IF \E i \in 1..Len(present) : present[i] = NegInf THEN NaN ELSE PosInf)
           ELSE IF \E i \in 1..Len(present) : present[i] = NegInf
           THEN NegInf
           ELSE [kind |-> "finite", terms |-> present]) :
          present \in {SelectSeq(column, LAMBDA x : ~isnan(x))}})

(***************************************************************************)
(* Year-on-year analysis page: show_yearly_analysis                        *)
(***************************************************************************)
\* the year every target pathway is drawn towards
TargetYear == 2050

\* column * 100
times100(column) ==
    Only({[i \in 1..Len(c) |-> multiply(c[i], FloatOf(100))] : c \in {column}})

\* filtered_df.groupby('year').agg(sum) with the tonnes and change columns
yearly_emissions_of(filtered_df) ==
    Only({Only({Only({Only({[i \in 1..Len(years) |->
                         [year |-> years[i],
                          electricity_emissions_kg |-> sums[i].electricity_emissions_kg,
                          gas_emissions_kg |-> sums[i].gas_emissions_kg,
                          total_emissions_tonnes |-> sums[i].total_emissions_tonnes,
                          electricity_kwh |-> sums[i].electricity_kwh,
                          gas_kwh |-> sums[i].gas_kwh,
                          electricity_emissions_tonnes |->
                              FloatDiv1000(sums[i].electricity_emissions_kg),
                          gas_emissions_tonnes |->
                              FloatDiv1000(sums[i].gas_emissions_kg),
                          elec_emissions_change |-> elec_change[i],
                          gas_emissions_change |-> gas_change[i],
                          total_emissions_change |-> total_change[i],
                          elec_usage_change |-> elec_usage[i],
                          gas_usage_change |-> gas_usage[i]]] :
                      elec_change \in {times100(pct_change([i \in 1..Len(years) |->
                          AsFloat(FloatDiv1000(sums[i].electricity_emissions_kg))]))},
                      gas_change \in {times100(pct_change([i \in 1..Len(years) |->
                          AsFloat(FloatDiv1000(sums[i].gas_emissions_kg))]))},
                      total_change \in {times100(pct_change([i \in 1..Len(years) |->
                          AsFloat(sums[i].total_emissions_tonnes)]))},
                      elec_usage \in {times100(pct_change([i \in 1..Len(years) |->
                          FloatOf(sums[i].electricity_kwh)]))},
                      gas_usage \in {times100(pct_change([i \in 1..Len(years) |->
                          FloatOf(sums[i].gas_kwh)]))}}) :
                sums \in {[i \in 1..Len(years) |->
                    Only({[year |-> years[i],
                           electricity_emissions_kg |->
                               SumAmounts(rows, "electricity_emissions_kg"),
                           gas_emissions_kg |-> SumAmounts(rows, "gas_emissions_kg"),
                           total_emissions_tonnes |->
                               SumAmounts(rows, "total_emissions_tonnes"),
                           electricity_kwh |-> SumKwh(rows, "electricity_kwh"),
                           gas_kwh |-> SumKwh(rows, "gas_kwh")] :
                          rows \in {SelectSeq(df, LAMBDA r : r.year = years[i])}})]}}) :
          years \in {sorted(unique(df, "year"))}}) :
      df \in {filtered_df}})

\* month_to_num[month.split(' ')[0]]
month_to_num(month) == CHOOSE m \in 1..12 : MonthName(m) = month[1]

\* variant: the seasons start a month later
season_of_shifted(x) ==
    Only({(IF m \in {1, 2, 3} THEN "Winter"
           ELSE IF m \in {4, 5, 6} THEN "Spring"
           ELSE IF m \in {7, 8, 9} THEN "Summer"
           ELSE "Autumn") :
          m \in {x}})

\* the lambda that names the season of a month number
season_of(x) ==
    Only({(IF m \in {12, 1, 2} THEN "Winter"
           ELSE IF m \in {3, 4, 5} THEN "Spring"
           ELSE IF m \in {6, 7, 8} THEN "Summer"
           ELSE "Autumn") :
          m \in {x}})

season_order == <<"Winter", "Spring", "Summer", "Autumn">>

\* year_data with its month_num column, grouped by month_num: one row per
\* month that has entries, with its season
monthly_data_of(year_data) ==
    Only({Only({[i \in 1..Len(month_nums) |->
                   Only({[month_num |-> month_nums[i],
                          season |-> season_of(month_nums[i]),
                          electricity_kwh |-> SumKwh(rows, "electricity_kwh"),
                          gas_kwh |-> SumKwh(rows, "gas_kwh"),
                          electricity_emissions_kg |->
                              SumAmounts(rows, "electricity_emissions_kg"),
                          gas_emissions_kg |-> SumAmounts(rows, "gas_emissions_kg")] :
                         rows \in {SelectSeq(with_month,
                                       LAMBDA r : r.month_num = month_nums[i])}})] :
                month_nums \in {sorted(unique(with_month, "month_num"))}}) :
          with_month \in {Only({[i \in 1..Len(df) |->
                                    [month_num |-> month_to_num(df[i].month),
                                     electricity_kwh |-> df[i].electricity_kwh,
                                     gas_kwh |-> df[i].gas_kwh,
                                     electricity_emissions_kg |->
                                         df[i].electricity_emissions_kg,
                                     gas_emissions_kg |-> df[i].gas_emissions_kg]] :
                                 df \in {year_data}})}})

\* monthly_data grouped by season: one row per season that has a month with
\* entries, in season_order
seasonal_data_of(year_data) ==
    Only({Only({[k \in 1..Len(present) |->
                   Only({[season |-> present[k],
                          electricity_kwh |-> SumKwh(rows, "electricity_kwh"),
                          gas_kwh |-> SumKwh(rows, "gas_kwh"),
                          electricity_emissions_kg |-> elec_kg,
                          gas_emissions_kg |-> gas_kg,
                          electricity_emissions_tonnes |-> FloatDiv1000(elec_kg),
                          gas_emissions_tonnes |-> FloatDiv1000(gas_kg),
                          total_emissions_tonnes |->
                              FloatAdd(FloatDiv1000(elec_kg), FloatDiv1000(gas_kg))] :
                         rows \in {SelectSeq(monthly_data,
                                       LAMBDA r : r.season = present[k])},
                         elec_kg \in {SumAmounts(SelectSeq(monthly_data,
                                          LAMBDA r : r.season = present[k]),
                                      "electricity_emissions_kg")},
                         gas_kg \in {SumAmounts(SelectSeq(monthly_data,
                                         LAMBDA r : r.season = present[k]),
                                     "gas_emissions_kg")}})] :
                present \in {SelectSeq(season_order,
                    LAMBDA s : \E i \in 1..Len(monthly_data) :
                                   monthly_data[i].season = s)}}) :
          monthly_data \in {monthly_data_of(year_data)}})

\* seasonal_data['percentage'] = total / total.sum() * 100
with_percentage(seasonal_data) ==
    Only({[k \in 1..Len(rows) |->
              [season |-> rows[k].season,
               total_emissions_tonnes |-> rows[k].total_emissions_tonnes,
               percentage |->
                   multiply(true_divide(AsFloat(rows[k].total_emissions_tonnes),
                                        total_sum),
                            FloatOf(100))]] :
          rows \in {seasonal_data},
          total_sum \in {AsFloat(SumAmounts(seasonal_data, "total_emissions_tonnes"))}})

\* variant: the pathway spans baseline_year .. baseline_year + 10
target_years_from_baseline(baseline_year, available_years) ==
    Only({[k \in 1..11 |-> first + k - 1] : first \in {baseline_year}})

\* list(range(baseline_year, max(available_years) + 11))
target_years_range(baseline_year, available_years) ==
    Only({[k \in 1..(last - first + 1) |-> first + k - 1] :
          first \in {baseline_year},
          last \in {available_years[Len(available_years)] + 10}})

\* variant: the pathway falls twice as fast
target_value_doubled(baseline_emissions, target_percentage, i, baseline_year) ==
    multiply(baseline_emissions,
        subtract(FloatOf(1),
            true_divide(multiply(true_divide(FloatOf(2 * target_percentage), FloatOf(100)),
                                 FloatOf(i - baseline_year)),
                        FloatOf(TargetYear - baseline_year))))

\* baseline_emissions * (1 - (target_percentage/100) * (i-baseline_year)/(2050-baseline_year))
target_value(baseline_emissions, target_percentage, i, baseline_year) ==
    multiply(baseline_emissions,
        subtract(FloatOf(1),
            true_divide(multiply(true_divide(FloatOf(target_percentage), FloatOf(100)),
                                 FloatOf(i - baseline_year)),
                        FloatOf(TargetYear - baseline_year))))

\* variant: "On Track" is tested before "Off Track"
progress_status_on_track_first(latest_emissions, target_emissions, actual_reduction, on_track) ==
    IF less_equal(latest_emissions, target_emissions) THEN "Target Achieved!"
    ELSE IF on_track THEN "On Track"
    ELSE IF less_equal(actual_reduction, FloatOf(0)) THEN "Off Track"
    ELSE "Behind Schedule"

\* the if / elif chain that names the progress status
progress_status(latest_emissions, target_emissions, actual_reduction, on_track) ==
    IF less_equal(latest_emissions, target_emissions) THEN "Target Achieved!"
    ELSE IF less_equal(actual_reduction, FloatOf(0)) THEN "Off Track"
    ELSE IF on_track THEN "On Track"
    ELSE "Behind Schedule"

\* available_years, the years and buildings the filter keeps, filtered_df
analysis_years(df) == sorted(unique(df, "year"))

analysis_year_filter(df, w) ==
    Only({(IF Len(available_years) < 2
           THEN unique(df, "year")
           ELSE IF Cardinality(w.years_to_compare) < 2
           THEN Only({{default_years[i] : i \in 1..Len(default_years)} :
                      default_years \in {SubSeq(Reversed(available_years), 1, 2)}})
           ELSE w.years_to_compare) :
          available_years \in {analysis_years(df)}})

analysis_buildings(df, w) ==
    IF w.selected_buildings = {}
    THEN unique(df, "building_name")
    ELSE w.selected_buildings

analysis_filtered_df(df, w) ==
    Only({SelectSeq(df, LAMBDA r : r.year \in year_filter
                                  /\ r.building_name \in selected_buildings) :
          year_filter \in {analysis_year_filter(df, w)},
          selected_buildings \in {analysis_buildings(df, w)}})

\* rendering stops where an exception is raised
\* seasonal_data[season == s]['total_emissions_tonnes'].values[0] if s in
\* seasonal_data['season'].values else 0
season_emissions(seasonal_data, s) ==
    Only({(IF rows = << >> THEN FloatOf(0)
           ELSE AsFloat(rows[1].total_emissions_tonnes)) :
          rows \in {SelectSeq(seasonal_data, LAMBDA r : r.season = s)}})

\* the list the Recommendations section builds, one tag per appended text
recommendations_of(winter_emissions, summer_emissions, latest_gas_emissions, latest_elec_emissions, on_track, actual_reduction) ==
    (IF greater(winter_emissions, multiply(summer_emissions, Rat(3, 2)))
     THEN <<"seasonal variation">> ELSE << >>)
    \o (IF greater(latest_gas_emissions, multiply(latest_elec_emissions, Rat(6, 5)))
        THEN <<"gas higher than electricity">>
        ELSE IF greater(latest_elec_emissions,
                        multiply(latest_gas_emissions, Rat(6, 5)))
        THEN <<"electricity higher than gas">>
        ELSE << >>)
    \o (IF ~on_track /\ greater(actual_reduction, FloatOf(0))
        THEN <<"behind the target pathway">>
        ELSE IF ~on_track /\ less_equal(actual_reduction, FloatOf(0))
        THEN <<"emissions have increased">>
        ELSE << >>)

\* the heading of the card drawn under Recommendations
recommendations_card(recommendations) ==
    IF recommendations # << >> THEN "Suggested Actions" ELSE "Great Progress!"

Raised(shown, exception, line) ==
    shown @@ [outcome |-> exception, line |-> line]

\* The page, for the stored entries and the values of its widgets w:
\*   w.years_to_compare   the "Select years to compare" multiselect
\*   w.selected_buildings the "Select buildings" multiselect
\*   w.selected_year      index of "Select year for monthly breakdown"
\*   w.baseline_year      the "Baseline Year" selectbox
\*   w.target_percentage  the "Target Reduction (%)" slider
\* Each \E names the value of one assignment of the function; page' is what
\* was shown when the function returned or raised.
show_yearly_analysis(df, w) ==
    IF df = << >>
    THEN page' = [view |-> "yearly_analysis", outcome |-> "no data"]
    ELSE
    \E available_years \in {analysis_years(df)} :
    \E years_to_compare \in {analysis_year_filter(df, w)} :
    \E selected_buildings \in {analysis_buildings(df, w)} :
    \E filtered_df \in {analysis_filtered_df(df, w)} :
    \E yearly_emissions \in {yearly_emissions_of(filtered_df)} :
    \E shown1 \in {[view |-> "yearly_analysis",
                    available_years |-> available_years,
                    years_to_compare |-> years_to_compare,
                    selected_buildings |-> selected_buildings,
                    filtered_rows |-> Len(filtered_df),
                    yearly_emissions |-> yearly_emissions]} :
    \* Year-on-Year Changes
    \E changes_df \in {SelectSeq(yearly_emissions,
                           LAMBDA r : r.year > yearly_emissions[1].year)} :
    IF Len(available_years) >= 2 /\ changes_df = << >>
    THEN page' = Raised(shown1, "IndexError", 2360)
    ELSE
    \E avg_change \in {Only({(IF isnan(m) THEN FloatOf(0) ELSE m) :
                             m \in {mean([i \in 1..Len(yearly_emissions) |->
                                        yearly_emissions[i].total_emissions_change])}})} :
    \E shown2 \in {IF Len(available_years) >= 2
                   THEN shown1 @@ [changes_df |-> changes_df,
                                   latest_year_changes |-> changes_df[Len(changes_df)],
                                   avg_change |-> avg_change]
                   ELSE shown1} :
    \* Monthly and seasonal patterns
    \E year_options \in {Reversed(sorted(unique(filtered_df, "year")))} :
    \E selected_year \in {year_options[w.selected_year]} :
    \E year_data \in {SelectSeq(filtered_df, LAMBDA r : r.year = selected_year)} :
    \E seasonal_data \in {seasonal_data_of(year_data)} :
    \E seasons \in {unique(seasonal_data, "season")} :
    \E shown3 \in {shown2 @@ [selected_year |-> selected_year,
                              seasonal_data |-> seasonal_data]} :
    IF ~({"Winter", "Summer"} \subseteq seasons)
    THEN page' = Raised(shown3, "IndexError", 2567)
    ELSE
    \E shown4 \in {shown3 @@ [percentages |-> with_percentage(seasonal_data)]} :
    IF "Spring" \notin seasons
    THEN page' = Raised(shown4, "IndexError", 2581)
    ELSE IF "Autumn" \notin seasons
    THEN page' = Raised(shown4, "IndexError", 2583)
    ELSE
    \* Progress Against Targets
    \E baseline_year \in {w.baseline_year} :
    \E target_percentage \in {w.target_percentage} :
    IF baseline_year \notin unique(yearly_emissions, "year")
    THEN page' = Raised(shown4 @@ [baseline_year |-> baseline_year,
                                   target_percentage |-> target_percentage],
                        "IndexError", 2619)
    ELSE
    \E baseline_row \in {r \in {yearly_emissions[i] : i \in 1..Len(yearly_emissions)} :
                            r.year = baseline_year} :
    \E baseline_emissions \in {AsFloat(baseline_row.total_emissions_tonnes)} :
    \E target_emissions \in
          {multiply(baseline_emissions,
                    subtract(FloatOf(1),
                             true_divide(FloatOf(target_percentage), FloatOf(100))))} :
    \E target_years_list \in {target_years_range(baseline_year, available_years)} :
    \E target_df \in
          {[k \in 1..Len(target_years_list) |->
               [Year |-> target_years_list[k],
                Target |-> target_value(baseline_emissions, target_percentage,
                                        target_years_list[k], baseline_year)]]} :
    \E latest_row \in {yearly_emissions[Len(yearly_emissions)]} :
    \E latest_year \in {latest_row.year} :
    \E latest_emissions \in {AsFloat(latest_row.total_emissions_tonnes)} :
    \E years_elapsed \in {latest_year - baseline_year} :
    \E target_years \in {TargetYear - baseline_year} :
    \E expected_reduction \in
          {multiply(FloatOf(target_percentage),
                    true_divide(FloatOf(years_elapsed), FloatOf(target_years)))} :
    \E actual_reduction \in
          {multiply(true_divide(subtract(baseline_emissions, latest_emissions),
                                baseline_emissions),
                    FloatOf(100))} :
    \E on_track \in {greater_equal(actual_reduction, expected_reduction)} :
    \* Recommendations
    \E winter_emissions \in {season_emissions(seasonal_data, "Winter")} :
    \E summer_emissions \in {season_emissions(seasonal_data, "Summer")} :
    \E latest_gas_emissions \in {AsFloat(latest_row.gas_emissions_tonnes)} :
    \E latest_elec_emissions \in {AsFloat(latest_row.electricity_emissions_tonnes)} :
    \E recommendations \in
          {recommendations_of(winter_emissions, summer_emissions,
                              latest_gas_emissions, latest_elec_emissions,
                              on_track, actual_reduction)} :
    page' = shown4 @@
        [baseline_year |-> baseline_year,
         target_percentage |-> target_percentage,
         baseline_emissions |-> baseline_emissions,
         target_emissions |-> target_emissions,
         target_df |-> target_df,
         latest_year |-> latest_year,
         latest_emissions |-> latest_emissions,
         years_elapsed |-> years_elapsed,
         expected_reduction |-> expected_reduction,
         actual_reduction |-> actual_reduction,
         on_track |-> on_track,
         status |-> progress_status(latest_emissions, target_emissions,
                                    actual_reduction, on_track),
         recommendations |-> recommendations,
         recommendations_card |-> recommendations_card(recommendations),
         outcome |-> "rendered"]

(***************************************************************************)
(* Dashboard of the selected building: data_entry_page / show_dashboard    *)
(***************************************************************************)
\* building_data.groupby('year').agg(sum), sorted by year, with the three
\* change columns
yearly_totals_of(building_data) ==
    Only({Only({Only({Only({[i \in 1..Len(years) |->
                         [year |-> years[i],
                          electricity_kwh |-> sums[i].electricity_kwh,
                          gas_kwh |-> sums[i].gas_kwh,
                          total_emissions_tonnes |-> sums[i].total_emissions_tonnes,
                          elec_change |-> elec_change[i],
                          gas_change |-> gas_change[i],
                          emissions_change |-> emissions_change[i]]] :
                      elec_change \in {times100(pct_change([i \in 1..Len(years) |->
                          FloatOf(sums[i].electricity_kwh)]))},
                      gas_change \in {times100(pct_change([i \in 1..Len(years) |->
                          FloatOf(sums[i].gas_kwh)]))},
                      emissions_change \in {times100(pct_change([i \in 1..Len(years) |->
                          AsFloat(sums[i].total_emissions_tonnes)]))}}) :
                sums \in {[i \in 1..Len(years) |->
                    Only({[year |-> years[i],
                           electricity_kwh |-> SumKwh(rows, "electricity_kwh"),
                           gas_kwh |-> SumKwh(rows, "gas_kwh"),
                           total_emissions_tonnes |->
                               SumAmounts(rows, "total_emissions_tonnes")] :
                          rows \in {SelectSeq(df, LAMBDA r : r.year = years[i])}})]}}) :
          years \in {sorted(unique(df, "year"))}}) :
      df \in {building_data}})

\* the page data_entry_page shows once a building is selected and no form
\* is open
show_dashboard(df) ==
    IF df = << >> \/ selected_building \notin unique(df, "building_id")
    THEN page' = [view |-> "dashboard", outcome |-> "no data", line |-> 2944]
    ELSE
    \E building_data \in
          {SelectSeq(df, LAMBDA r : r.building_id = selected_building
                                    /\ SeqContains(selected_years, r.year))} :
    IF building_data = << >>
    THEN page' = [view |-> "dashboard", outcome |-> "no data", line |-> 3103]
    ELSE
    \E shown1 \in {[view |-> "dashboard",
                    outcome |-> "rendered",
                    selected_years |-> selected_years,
                    total_electricity |-> SumKwh(building_data, "electricity_kwh"),
                    total_gas |-> SumKwh(building_data, "gas_kwh"),
                    total_emissions |->
                        SumAmounts(building_data, "total_emissions_tonnes")]} :
    \E yearly_totals \in {yearly_totals_of(building_data)} :
    \E yearly_totals_filtered \in
          {SelectSeq(yearly_totals, LAMBDA r : r.year > yearly_totals[1].year)} :
    \E avg_emissions_change \in
          {mean([i \in 1..Len(yearly_totals_filtered) |->
                    yearly_totals_filtered[i].emissions_change])} :
    page' = IF Len(selected_years) > 1 /\ Len(yearly_totals) > 1
            THEN shown1 @@ [yearly_totals |-> yearly_totals,
                            yearly_totals_filtered |-> yearly_totals_filtered,
                            avg_emissions_change |-> avg_emissions_change]
            ELSE shown1

\* one rendering of the dashboard for the selected building and years
ShowDashboard ==
    /\ page = NoPage
    /\ selected_building \in BuildingIds(buildings)
    /\ show_dashboard(data_entries)
    /\ UNCHANGED <<session, calc>>

(***************************************************************************)
(* The analytics pages on their own: sessions whose entries were saved     *)
(* through the two forms, and renderings of the pages for every widget     *)
(* setting                                                                 *)
(***************************************************************************)
\* month_data typed into the multiple month form (kWh in whole thousands)
HighUsage ==
    [ClearedMonthData EXCEPT ![1] = <<3000, 2000>>, ![4] = <<2000, 1000>>,
                             ![7] = <<2000, 1000>>, ![10] = <<2000, 1000>>,
                             ![12] = <<1000, 1000>>]
LowUsage ==
    [ClearedMonthData EXCEPT ![1] = <<2000, 1000>>, ![4] = <<1000, 1000>>,
                             ![7] = <<1000, 1000>>, ![10] = <<1000, 0>>]
WinterSummerOnly ==
    [ClearedMonthData EXCEPT ![1] = <<3000, 2000>>, ![7] = <<2000, 1000>>]
ElectricityOnly ==
    [ClearedMonthData EXCEPT ![1] = <<2000, 0>>, ![4] = <<2000, 0>>,
                             ![7] = <<2000, 0>>, ![10] = <<2000, 0>>]

EvenUsage ==
    [ClearedMonthData EXCEPT ![1] = <<1000, 1100>>, ![4] = <<1000, 1100>>,
                             ![7] = <<1000, 1100>>, ![10] = <<1000, 1100>>]

\* what is saved for one year: nothing, one submission of the multiple
\* month form, or single month submissions
NoSubmission == [form |-> "none"]
MultipleMonths(building, year, month_data) ==
    [form |-> "multiple", building |-> building, year |-> year,
     month_data |-> month_data]
SingleMonths(building, year, months, usage) ==
    [form |-> "single", building |-> building, year |-> year,
     months |-> months, usage |-> usage]

RECURSIVE single_month_entries(_, _, _, _, _)
single_month_entries(period, building, year, months, usage) ==
    IF months = << >>
    THEN << >>
    ELSE LET month == datetime(year, Head(months), 15)
         IN  <<form_entry(building, month, usage[1], usage[2],
                          calculate_emissions(period, usage[1], usage[2], month))>>
             \o single_month_entries(period, building, year, Tail(months), usage)

submission_entries(period, s) ==
    CASE s.form = "none" -> << >>
      [] s.form = "multiple" ->
            multi_month_entries(period, s.building, s.year, s.month_data, 1)
      [] s.form = "single" ->
            single_month_entries(period, s.building, s.year, s.months, s.usage)

Library == new_building("Library", "a1b2c3d4")
TownHall == new_building("Town Hall", "a1b2c3d4")

YearSubmissions(year) ==
    {NoSubmission,
     MultipleMonths(Library, year, HighUsage),
     MultipleMonths(Library, year, LowUsage),
     MultipleMonths(Library, year, WinterSummerOnly),
     MultipleMonths(Library, year, ElectricityOnly),
     MultipleMonths(Library, year, EvenUsage),
     SingleMonths(Library, year, <<1, 4, 7, 10>>, <<0, 0>>)}

OtherSubmissions ==
    {NoSubmission,
     SingleMonths(TownHall, MaxTableYear, <<1>>, <<9000, 5000>>),
     SingleMonths(TownHall, TargetYear, <<1>>, <<9000, 5000>>)}

AnalysisSessions ==
    {<<s1, s2, s3>> : s1 \in YearSubmissions(AVAILABLE_YEARS[2]),
                      s2 \in YearSubmissions(AVAILABLE_YEARS[3]),
                      s3 \in OtherSubmissions}

RECURSIVE submitted_years(_, _)
submitted_years(years, submissions) ==
    IF submissions = << >>
    THEN years
    ELSE submitted_years(
             IF Head(submissions).form = "none"
             THEN years
             ELSE append_year(years, Head(submissions).year),
             Tail(submissions))

InitAnalysis ==
    /\ demo_mode = FALSE
    /\ buildings = <<Library, TownHall>>
    /\ selected_building = Library.id
    /\ reporting_period \in {REPORTING_PERIODS[i] : i \in 1..Len(REPORTING_PERIODS)}
    /\ \E submissions \in AnalysisSessions :
          /\ data_entries = submission_entries(reporting_period, submissions[1])
                            \o submission_entries(reporting_period, submissions[2])
                            \o submission_entries(reporting_period, submissions[3])
          /\ selected_years = submitted_years(<<MaxTableYear>>, submissions)
    /\ calc_args = NoArgs
    /\ calc_result = NoResult
    /\ calc_period = None
    /\ page = NoPage

\* positions of the "Target Reduction (%)" slider (0..100 in steps of 5)
TargetPercentages == {0, 25, 50, 100}

\* the settings the two multiselects offer for the stored entries (one
\* year alone is not listed: fewer than two years fall back to the default)
AnalysisFilters ==
    LET years == unique(data_entries, "year")
        names == unique(data_entries, "building_name")
    IN  {f \in [years_to_compare : SUBSET years, selected_buildings : SUBSET names] :
            /\ Cardinality(f.years_to_compare) # 1
            /\ Cardinality(years) < 2 => f.years_to_compare = {}}

\* the settings the selectboxes and the slider below them offer
AnalysisWidgets(f) ==
    LET years == unique(data_entries, "year")
        shown_years == unique(analysis_filtered_df(data_entries, f), "year")
    IN  {f @@ s : s \in [selected_year : 1..(IF shown_years = {} THEN 1
                                              ELSE Cardinality(shown_years)),
                         baseline_year : IF years = {} THEN {0} ELSE years,
                         target_percentage : TargetPercentages]}

\* the first rendering of the page after the entries were saved: nothing
\* in the session changes
ShowYearlyAnalysis(w) ==
    /\ page = NoPage
    /\ show_yearly_analysis(data_entries, w)
    /\ UNCHANGED <<session, calc>>

NextAnalysis ==
    \/ \E f \in AnalysisFilters : \E w \in AnalysisWidgets(f) : ShowYearlyAnalysis(w)
    \/ ShowDashboard

SpecAnalysis == InitAnalysis /\ [][NextAnalysis]_vars

(***************************************************************************)
(* Properties of the analytics pages, checked under SpecAnalysis           *)
(***************************************************************************)
Shows(field) == field \in DOMAIN page
YearlyPage == page.view = "yearly_analysis"
DashboardPage == page.view = "dashboard"

\* the stored entries a selection of years and buildings matches
Matching(years, names) ==
    {i \in 1..Len(data_entries) : /\ data_entries[i].year \in years
                                  /\ data_entries[i].building_name \in names}
MatchingIds(years, ids) ==
    {i \in 1..Len(data_entries) : /\ data_entries[i].year \in years
                                  /\ data_entries[i].building_id \in ids}

\* an amount of kg as grams, an amount of tonnes as grams
KgAsGrams(q) == (q.w * 1000) + (q.n \div 1000000)
TonnesAsGrams(q) == (q.w * 1000000) + (q.n \div 1000)

\* an entry's electricity, gas, electricity emissions (g), gas emissions (g)
\* or total emissions (g)
Value(e, quantity) ==
    CASE quantity = "electricity kWh" -> e.electricity_kwh
      [] quantity = "gas kWh" -> e.gas_kwh
      [] quantity = "electricity g" -> KgAsGrams(e.electricity_emissions_kg)
      [] quantity = "gas g" -> KgAsGrams(e.gas_emissions_kg)
      [] quantity = "total g" -> TonnesAsGrams(e.total_emissions_tonnes)

\* the sum of a quantity over the entries numbered in a set
RECURSIVE SumOver(_, _)
SumOver(entries, quantity) ==
    IF entries = {}
    THEN 0
    ELSE LET i == CHOOSE j \in entries : TRUE
         IN  Value(data_entries[i], quantity) + SumOver(entries \ {i}, quantity)

InYear(entries, y) == {i \in entries : data_entries[i].year = y}
YearsOf(entries) == {data_entries[i].year : i \in entries}
PreviousYear(years, y) ==
    CHOOSE z \in years : z < y /\ \A v \in years : v < y => v <= z

\* (current - previous) / previous x 100
PercentChange(current, previous) == Rat((current - previous) * 100, previous)

\* a change column holds the formula's value wherever the previous sum is
\* not zero
ChangeIs(change, current, previous) ==
    previous # 0 => change = PercentChange(current, previous)

\* C11: in the year-on-year tables of the analysis page and of the
\* dashboard the entries are summed per year; there is a change row for
\* every year with matching entries except the earliest, and each change is
\* (this year's sum - previous year's sum) / previous year's sum x 100
C11_YearOverYearChange ==
    /\ (YearlyPage /\ Shows("changes_df")) =>
          LET entries == Matching(page.years_to_compare, page.selected_buildings)
              years == YearsOf(entries)
              Sum(y, quantity) == SumOver(InYear(entries, y), quantity)
          IN  /\ {page.changes_df[i].year : i \in 1..Len(page.changes_df)}
                    = {y \in years : \E z \in years : z < y}
              /\ \A i \in 1..Len(page.changes_df) :
                    LET row == page.changes_df[i]
                        y == row.year
                        p == PreviousYear(years, y)
                    IN  /\ TonnesAsGrams(row.total_emissions_tonnes) = Sum(y, "total g")
                        /\ row.electricity_kwh = Sum(y, "electricity kWh")
                        /\ row.gas_kwh = Sum(y, "gas kWh")
                        /\ ChangeIs(row.total_emissions_change,
                                    Sum(y, "total g"), Sum(p, "total g"))
                        /\ ChangeIs(row.elec_emissions_change,
                                    Sum(y, "electricity g"), Sum(p, "electricity g"))
                        /\ ChangeIs(row.gas_emissions_change,
                                    Sum(y, "gas g"), Sum(p, "gas g"))
                        /\ ChangeIs(row.elec_usage_change,
                                    Sum(y, "electricity kWh"), Sum(p, "electricity kWh"))
                        /\ ChangeIs(row.gas_usage_change,
                                    Sum(y, "gas kWh"), Sum(p, "gas kWh"))
    /\ (DashboardPage /\ Shows("yearly_totals_filtered")) =>
          LET entries == MatchingIds({selected_years[i] : i \in 1..Len(selected_years)},
                                     {selected_building})
              years == YearsOf(entries)
              Sum(y, quantity) == SumOver(InYear(entries, y), quantity)
              table == page.yearly_totals_filtered
          IN  /\ {table[i].year : i \in 1..Len(table)}
                    = {y \in years : \E z \in years : z < y}
              /\ \A i \in 1..Len(table) :
                    LET row == table[i]
                        y == row.year
                        p == PreviousYear(years, y)
                    IN  /\ ChangeIs(row.emissions_change,
                                    Sum(y, "total g"), Sum(p, "total g"))
                        /\ ChangeIs(row.elec_change,
                                    Sum(y, "electricity kWh"), Sum(p, "electricity kWh"))
                        /\ ChangeIs(row.gas_change,
                                    Sum(y, "gas kWh"), Sum(p, "gas kWh"))

\* the analysis page shows change rows for two later years, computed from
\* non-zero sums
C11_Witness ==
    /\ YearlyPage /\ Shows("changes_df")
    /\ Len(page.changes_df) = 2
    /\ \A i \in 1..2 : /\ isfinite(page.changes_df[i].total_emissions_change)
                       /\ page.changes_df[i].total_emissions_change.num # 0

ChangeColumns ==
    {"total_emissions_change", "elec_emissions_change", "gas_emissions_change",
     "elec_usage_change", "gas_usage_change"}

\* C12: when the previous year's sum is zero the change shown for the
\* following year is a 'not applicable' value: no change of the table is
\* infinite and the average annual change is not infinite (the weakest
\* reading of the claim: a NaN cell is let through as 'not applicable')
C12_ZeroPreviousYearNotApplicable ==
    (YearlyPage /\ Shows("changes_df")) =>
        /\ \A i \in 1..Len(page.changes_df) :
              \A column \in ChangeColumns : ~isinf(page.changes_df[i][column])
        /\ ~isinf(page.avg_change)

Rendered == YearlyPage /\ page.outcome = "rendered"

\* the entries behind a rendered analysis page, the sum of the baseline year
\* and of the latest year with entries, in grams
PageEntries == Matching(page.years_to_compare, page.selected_buildings)
LatestYear == CHOOSE y \in YearsOf(PageEntries) : \A z \in YearsOf(PageEntries) : z <= y
BaselineGrams == SumOver(InYear(PageEntries, page.baseline_year), "total g")
LatestGrams == SumOver(InYear(PageEntries, LatestYear), "total g")

\* the status the four checks give, taken in the order of the claim
ExpectedStatus ==
    LET baseline == BaselineGrams
        latest == LatestGrams
        target == page.target_percentage
        years_elapsed == LatestYear - page.baseline_year
    IN  IF latest * 100 <= baseline * (100 - target)
        THEN "Target Achieved!"
        ELSE IF latest >= baseline
        THEN "Off Track"
        ELSE IF greater_equal(Rat((baseline - latest) * 100, baseline),
                              Rat(target * years_elapsed, 2050 - page.baseline_year))
        THEN "On Track"
        ELSE "Behind Schedule"

\* C13: the progress status is 'Target Achieved' if latest <= baseline x
\* (1 - target%/100), otherwise 'Off Track' if the actual reduction is <= 0,
\* otherwise 'On Track' if the actual reduction >= the expected reduction,
\* otherwise 'Behind Schedule'; the reductions are (baseline - latest) /
\* baseline x 100 and target% x years_elapsed / (2050 - baseline_year)
C13_ProgressStatus ==
    Rendered =>
        /\ page.status = ExpectedStatus
        /\ page.status \in {"Target Achieved!", "Off Track", "On Track", "Behind Schedule"}
        /\ BaselineGrams # 0 =>
              page.actual_reduction
                  = Rat((BaselineGrams - LatestGrams) * 100, BaselineGrams)
        /\ page.baseline_year # 2050 =>
              page.expected_reduction
                  = Rat(page.target_percentage * (LatestYear - page.baseline_year),
                        2050 - page.baseline_year)

\* the order of the checks decides: the reduction is zero, which is both
\* 'not above zero' and 'at least the expected reduction'
C13_Witness ==
    /\ Rendered
    /\ page.status = "Off Track"
    /\ page.on_track
    /\ page.target_percentage > 0

\* a pathway was drawn from a baseline year before 2050 with a non-zero
\* baseline
PathwayShown == Rendered /\ page.baseline_year # 2050 /\ BaselineGrams # 0

\* baseline x (1 - (target%/100) x (y - baseline_year)/(2050 - baseline_year))
\* as one fraction of grams
PathwayGrams(y) ==
    LET span == 2050 - page.baseline_year
    IN  multiply(FloatOf(BaselineGrams),
                 Rat((100 * span) - (page.target_percentage * (y - page.baseline_year)),
                     100 * span))

\* C14: every point of the target pathway is baseline x (1 - (target%/100)
\* x (y - baseline_year)/(2050 - baseline_year)); the first point is the
\* baseline, consecutive points fall by the same amount, and continued to
\* 2050 the line reaches baseline x (1 - target%/100); baseline year 2020,
\* baseline 100 and target 50% give 75 at 2035
C14_TargetPathway ==
    /\ target_value(FloatOf(100), 50, 2035, 2020) = FloatOf(75)
    /\ PathwayShown =>
        LET path == page.target_df
            step == subtract(path[1].Target, path[2].Target)
        IN  /\ \A k \in 1..Len(path) : path[k].Target = PathwayGrams(path[k].Year)
            /\ path[1].Year = page.baseline_year
            /\ path[1].Target = FloatOf(BaselineGrams)
            /\ \A k \in 1..(Len(path) - 1) :
                  subtract(path[k].Target, path[k + 1].Target) = step
            /\ greater_equal(step, FloatOf(0))
            /\ subtract(path[1].Target,
                        multiply(step, FloatOf(2050 - page.baseline_year)))
                  = page.target_emissions

\* a falling pathway is shown
C14_Witness ==
    /\ PathwayShown
    /\ page.target_percentage = 50
    /\ less(page.target_df[Len(page.target_df)].Target, page.target_df[1].Target)

\* the latest year any stored entry has
LatestStoredYear ==
    CHOOSE y \in {data_entries[i].year : i \in 1..Len(data_entries)} :
        \A i \in 1..Len(data_entries) : data_entries[i].year <= y

PathwayYears == [k \in 1..Len(page.target_df) |-> page.target_df[k].Year]

\* C15 as stated: the target pathway has exactly one point for every year
\* from baseline_year to baseline_year + 10 (11 points), whichever baseline
\* year is chosen
C15_ElevenPoints ==
    Rendered =>
        PathwayYears = [k \in 1..11 |-> page.baseline_year + k - 1]

\* C15: the target pathway has exactly one point for every year from
\* baseline_year to the latest year with stored entries + 10, in ascending
\* order; it has 11 points exactly when the baseline is that latest year
C15_PathwayToLatestYearPlusTen ==
    Rendered =>
        /\ PathwayYears
              = [k \in 1..(LatestStoredYear + 10 - page.baseline_year + 1) |->
                    page.baseline_year + k - 1]
        /\ Len(page.target_df) = 11 <=> page.baseline_year = LatestStoredYear

\* a pathway drawn from a baseline year that is not the latest year
C15_Witness ==
    /\ Rendered
    /\ page.baseline_year < LatestStoredYear
    /\ Len(page.target_df) > 11

\* C16: when the baseline year is 2050 nothing is divided by zero: no point
\* of the target pathway and no expected reduction is infinite or NaN
C16_Baseline2050NoDivisionByZero ==
    (Rendered /\ page.baseline_year = 2050) =>
        /\ \A k \in 1..Len(page.target_df) : isfinite(page.target_df[k].Target)
        /\ isfinite(page.expected_reduction)

\* the months of each season
SeasonMonths ==
    [Winter |-> {12, 1, 2}, Spring |-> {3, 4, 5},
     Summer |-> {6, 7, 8}, Autumn |-> {9, 10, 11}]

\* the entries of the year chosen for the monthly and seasonal charts, and
\* those of one season
SeasonYearEntries == InYear(PageEntries, page.selected_year)
InSeason(entries, s) == {i \in entries : data_entries[i].month_num \in SeasonMonths[s]}

\* C17: every month 1..12 belongs to exactly one season (12, 1, 2 Winter;
\* 3, 4, 5 Spring; 6, 7, 8 Summer; 9, 10, 11 Autumn) and each season's
\* total for the chosen year is the sum of the emissions of that year's
\* entries in those months
C17_SeasonalBuckets ==
    /\ \A m \in 1..12 :
          /\ season_of(m) \in DOMAIN SeasonMonths
          /\ \A s \in DOMAIN SeasonMonths : season_of(m) = s <=> m \in SeasonMonths[s]
    /\ (YearlyPage /\ Shows("seasonal_data")) =>
          /\ {page.seasonal_data[k].season : k \in 1..Len(page.seasonal_data)}
                = {s \in DOMAIN SeasonMonths : InSeason(SeasonYearEntries, s) # {}}
          /\ \A k \in 1..Len(page.seasonal_data) :
                LET row == page.seasonal_data[k]
                    entries == InSeason(SeasonYearEntries, row.season)
                IN  /\ KgAsGrams(row.electricity_emissions_kg)
                          = SumOver(entries, "electricity g")
                    /\ KgAsGrams(row.gas_emissions_kg) = SumOver(entries, "gas g")
                    /\ TonnesAsGrams(row.total_emissions_tonnes)
                          = SumOver(entries, "electricity g") + SumOver(entries, "gas g")
                    /\ row.electricity_kwh = SumOver(entries, "electricity kWh")
                    /\ row.gas_kwh = SumOver(entries, "gas kWh")

\* the Winter total of the chosen year adds up January and December
C17_Witness ==
    /\ YearlyPage /\ Shows("seasonal_data")
    /\ Len(page.seasonal_data) = 4
    /\ \E i, j \in InSeason(SeasonYearEntries, "Winter") :
          data_entries[i].month_num = 1 /\ data_entries[j].month_num = 12

\* the seasons in which the chosen year has entries
SeasonsWithEntries ==
    {s \in DOMAIN SeasonMonths : InSeason(SeasonYearEntries, s) # {}}

\* the percentage shown for a season
PercentageOf(s) ==
    LET row == CHOOSE r \in {page.percentages[k] : k \in 1..Len(page.percentages)} :
                   r.season = s
    IN  row.percentage

\* C18: for a chosen year with entries only in Winter and Summer months the
\* page shows percentages for all four seasons, and Spring and Autumn are 0%
C18_WinterSummerOnlyPercentages ==
    (YearlyPage /\ Shows("selected_year") /\ SeasonsWithEntries = {"Winter", "Summer"}) =>
        /\ page.outcome # "IndexError"
        /\ {page.percentages[k].season : k \in 1..Len(page.percentages)}
              = DOMAIN SeasonMonths
        /\ PercentageOf("Spring") = FloatOf(0)
        /\ PercentageOf("Autumn") = FloatOf(0)

\* C19: when the season totals of the chosen year add up to zero, every
\* season's percentage of the annual total is 0
C19_ZeroTotalPercentages ==
    (YearlyPage /\ Shows("percentages")
        /\ SumOver(SeasonYearEntries, "total g") = 0) =>
        \A k \in 1..Len(page.percentages) : page.percentages[k].percentage = FloatOf(0)

\* C20: when the building / year selection of an analytics view matches no
\* entries, the view ends with an explicit 'no data' outcome
C20_EmptySelectionNoData ==
    /\ (YearlyPage /\ Shows("filtered_rows") /\ page.filtered_rows = 0) =>
          page.outcome = "no data"
    /\ (DashboardPage
          /\ MatchingIds({selected_years[i] : i \in 1..Len(selected_years)},
                         {selected_building}) = {}) =>
          page.outcome = "no data"


(***************************************************************************)
(* Properties of the stored entries and the selection, checked under Spec  *)
(***************************************************************************)
SameMonth(e1, e2) ==
    /\ e1.building_id = e2.building_id
    /\ e1.year = e2.year
    /\ e1.month_num = e2.month_num

\* C21: after any sequence of single-month submissions, multi-month
\* submissions and demo loads, data_entries holds at most one entry for a
\* given building, year and month.
C21_OneEntryPerBuildingMonth ==
    \A i, j \in 1..Len(data_entries) :
        SameMonth(data_entries[i], data_entries[j]) => i = j

DemoYears == {2023, 2024}

\* the (building, year, month) keys of the stored entries
EntryKeys(entries) ==
    {<<entries[i].building_id, entries[i].year, entries[i].month_num>> :
        i \in 1..Len(entries)}

\* the emissions of entry e are those of calculate_emissions for the first
\* day of its month under the given reporting period
EmissionsOfFirstDay(e, period) ==
    LET emissions == calculate_emissions(period, e.electricity_kwh, e.gas_kwh,
                                         datetime(e.year, e.month_num, 1))
    IN  /\ e.electricity_emissions_kg = emissions.electricity_emissions_kg
        /\ e.gas_emissions_kg = emissions.gas_emissions_kg
        /\ e.total_emissions_tonnes = emissions.total_emissions_tonnes
        /\ e.month = strftime_B_Y(datetime(e.year, e.month_num, 1))

\* 72 entries with 72 different keys, all among the 3 x 2 x 12 keys of the
\* demo buildings, years and months: exactly one entry for every key
DemoDataLoaded(entries, bs, period) ==
    /\ Len(entries) = 3 * 12 * 2
    /\ Cardinality(BuildingIds(bs)) = 3
    /\ Cardinality(EntryKeys(entries)) = Len(entries)
    /\ \A i \in 1..Len(entries) :
          /\ entries[i].year \in DemoYears
          /\ entries[i].month_num \in Months
          /\ entries[i].building_id \in BuildingIds(bs)
          /\ EmissionsOfFirstDay(entries[i], period)

\* C22: entering demo mode leaves exactly 3 x 12 x 2 = 72 entries, one for
\* every demo building, month 1..12 and year 2023 / 2024 and nothing else,
\* each with the emissions calculate_emissions gives for the first day of
\* its month.
C22_DemoDataSeventyTwoEntries ==
    [][(~demo_mode /\ demo_mode')
          => DemoDataLoaded(data_entries', buildings', reporting_period')]_vars

\* the demo data as loaded, with the financial reporting period in force
C22_Witness ==
    /\ demo_mode
    /\ Len(data_entries) = 72
    /\ buildings = DemoBuildings
    /\ reporting_period = "financial"

(***************************************************************************)
(* The baseline year of the yearly analysis, checked under SpecAnalysis    *)
(***************************************************************************)
\* the years that have a row in the per-year totals table of the page
TotalsYears ==
    {page.yearly_emissions[i].year : i \in 1..Len(page.yearly_emissions)}

\* C23: for every baseline year the selectbox offers and every selection of
\* years to compare, the per-year totals table has a row for the baseline
\* year, so the progress computation does not fail on a missing row.
C23_BaselineYearHasRow ==
    (YearlyPage /\ Shows("baseline_year")) =>
        /\ page.baseline_year \in TotalsYears
        /\ page.outcome # "IndexError"

(***************************************************************************)
(* The year selection and the building selection, checked under Spec       *)
(***************************************************************************)
\* C24: in every reachable state every year in selected_years is one of
\* AVAILABLE_YEARS (2022..2025), the options of the sidebar's year
\* multiselect, whatever the current calendar year and whatever month a
\* single-month entry is saved for.
C24_SelectedYearsAvailable ==
    \A i \in 1..Len(selected_years) :
        \E k \in 1..Len(AVAILABLE_YEARS) : selected_years[i] = AVAILABLE_YEARS[k]

\* a step in which one of the two forms appended entries
FormAppended ==
    /\ Len(data_entries') > Len(data_entries)
    /\ SubSeq(data_entries', 1, Len(data_entries)) = data_entries
    /\ buildings' = buildings

\* C25: every entry's building_id is the id of a building currently in
\* buildings, and a form submission made while no existing building is
\* selected appends no entry.
C25_EntriesBelongToBuildings ==
    /\ [](\A i \in 1..Len(data_entries) :
             data_entries[i].building_id \in BuildingIds(buildings))
    /\ [][FormAppended => selected_building \in BuildingIds(buildings)]_vars

\* a form entry stored for a building the user added
C25_Witness ==
    /\ ~demo_mode
    /\ data_entries # << >>
    /\ selected_building = data_entries[Len(data_entries)].building_id
    /\ Len(buildings) = 2

\* C26: selected_building is None or the id of a building currently in
\* buildings.
C26_SelectedBuildingExists ==
    selected_building = None \/ selected_building \in BuildingIds(buildings)

\* a building the user added is selected while another one exists
C26_Witness ==
    /\ Len(buildings) = 2
    /\ selected_building = buildings[2].id
    /\ ~demo_mode

\* a step in which add_building_form appended a building: it has selected
\* the new building's id and rerun the script, whose sidebar renders the
\* building selector with that selection and no choice by the user
BuildingAdded ==
    /\ Len(buildings') = Len(buildings) + 1
    /\ SubSeq(buildings', 1, Len(buildings)) = buildings

\* C27: rendering the sidebar building selector without the user choosing a
\* different building leaves selected_building unchanged, also when two
\* buildings have the same name: the building just added, selected by
\* add_building_form, is still selected after the sidebar has rendered.
C27_SidebarKeepsSelection ==
    [][BuildingAdded => selected_building' = buildings'[Len(buildings')].id]_vars

(***************************************************************************)
(* The recommendations card of the yearly analysis, checked under          *)
(* SpecAnalysis                                                            *)
(***************************************************************************)
\* C28: the 'Great Progress! ... you're on track to meet your emissions
\* reduction targets' card is shown only when the progress status on the
\* same page is 'On Track' or 'Target Achieved!', never together with
\* 'Off Track' or 'Behind Schedule'.
C28_GreatProgressOnlyOnTrack ==
    (Rendered /\ page.recommendations_card = "Great Progress!") =>
        page.status \in {"On Track", "Target Achieved!"}

(***************************************************************************)
(* The multiple month form, checked under Spec                             *)
(***************************************************************************)
\* a step in which the multiple month form processed a submission
MultiMonthSubmitted ==
    /\ page'.view = "multiple_month_form"
    /\ page' # page \/ FormAppended

\* the positions of the entries a step appended
Appended == (Len(data_entries) + 1)..Len(data_entries')

\* C29: after a multiple-month submission that adds at least one entry, the
\* factor year named in the success message equals the factor_year stored
\* on every entry the submission added, under both reporting periods.
C29_MessageFactorYear ==
    [][(MultiMonthSubmitted /\ page'.message = "success") =>
          \A i \in Appended : data_entries'[i].factor_year = page'.factor_year]_vars

\* the months of the form that carry electricity or gas usage, in month order
MonthsWithUsage(month_data) ==
    SelectSeq([m \in 1..12 |-> m],
              LAMBDA m : month_data[m][1] > 0 \/ month_data[m][2] > 0)

\* C30: a multiple-month submission appends exactly one entry for every
\* month whose electricity or gas usage is greater than zero, in month
\* order, and none for a month where both are zero; with all twelve months
\* zero it appends nothing and leaves data_entries unchanged; the count the
\* form reports equals the number of entries appended.
C30_OneEntryPerMonthWithUsage ==
    [][MultiMonthSubmitted =>
          LET months == MonthsWithUsage(page'.month_data)
          IN  /\ Len(data_entries') = Len(data_entries) + Len(months)
              /\ SubSeq(data_entries', 1, Len(data_entries)) = data_entries
              /\ \A k \in 1..Len(months) :
                    LET e == data_entries'[Len(data_entries) + k]
                    IN  /\ e.month_num = months[k]
                        /\ e.year = page'.year
                        /\ e.building_id = selected_building
                        /\ e.electricity_kwh = page'.month_data[months[k]][1]
                        /\ e.gas_kwh = page'.month_data[months[k]][2]
              /\ page'.entries_added = Len(data_entries') - Len(data_entries)
              /\ (months = << >>) =>
                    (data_entries' = data_entries /\ page'.message = "warning")]_vars

\* a submission with usage in March (electricity only) and April (gas only)
C30_Witness ==
    /\ page.view = "multiple_month_form"
    /\ page.entries_added = 2
    /\ Len(data_entries) = 2
    /\ data_entries[1].month_num = 3
    /\ data_entries[2].month_num = 4

====
